---- MODULE Spec2Model ----
(***************************************************************************)
(* Model of the EngageLab e-mail client (email_push_engagelab.go):         *)
(*   - Secret and NewEngageLabEmailClient      (specification SpecSecret)  *)
(*   - Send, SendRegular, SendTemplate         (specification SpecSend)    *)
(*   - GetTemplates                            (specification SpecTemplates)*)
(* Go strings are sequences of one-character strings; a nil pointer or nil *)
(* slice is the empty tuple Nil and a non-nil one is the 1-tuple Some(v).  *)
(***************************************************************************)
EXTENDS Integers, Sequences, FiniteSets, TLC

VARIABLES
    \* ---- Secret / NewEngageLabEmailClient
    environ,    \* value of the environment variable ENGAGE_LAB_EMAIL_API_KEY
    secPc,      \* "idle" | "secret" | "client" | "panic"
    key,        \* the argument the last call passed to Secret
    masked,     \* what Secret returned
    apiKey,     \* EngageLabEmailClient.apiKey after construction
    \* ---- Send
    sendPc,     \* "idle" | "do" (client.Do in flight) | "done"
    call,       \* the entry point called and the caller's arguments
    params,     \* the parameters Send itself received
    posts,      \* the HTTP requests Send handed to client.Do, in order
    httpRsp,    \* what client.Do gave back (Nil before)
    result,     \* Send's first return value: Nil or Some(EmailResponse)
    err,        \* Send's second return value: "" is a nil error
    \* ---- GetTemplates
    vendor,     \* "catalog": serves a fixed catalog; "arbitrary": anything
    catalog,    \* size of the vendor's template catalog
    gtPc,       \* "request" | "do" | "sleep" | "done" | "panic"
    page,       \* the loop's page index
    xs,         \* the accumulated templates
    gets,       \* the GET requests issued, in order
    rsps,       \* what client.Do gave back for each of them, in order
    events,     \* "request" / "response" / "pause", in the order they happened
    inflight,   \* number of GET requests sent and not yet answered
    ret         \* GetTemplates' return values: [list, err], Nil before return

secretVars == <<environ, secPc, key, masked, apiKey>>
sendVars == <<sendPc, call, params, posts, httpRsp, result, err>>
templateVars == <<vendor, catalog, gtPc, page, xs, gets, rsps, events, inflight, ret>>
vars == <<secretVars, sendVars, templateVars>>

Nil == <<>>
Some(v) == <<v>>

\* ------------------------------------------------------------------ bounds
MaxKeyLen == 6
MaxEnvLen == 1
MaxPages == 4
MaxCatalog == 237

Chars == {"a", "b", "*"}
StringsUpTo(n) == UNION {[1..k -> Chars] : k \in 0..n}

Repeat(c, n) == [i \in 1..n |-> c]

\* ------------------------------------------------------------------ Secret
SecretFloorThird(k) ==
    LET n == Len(k) IN
    IF n <= 1 THEN Repeat("*", n)
    ELSE LET m == n \div 3
             start0 == (n - m) \div 2
             end0 == start0 + m
             start == IF start0 < 0 THEN 0 ELSE start0
             end == IF end0 > n THEN n ELSE end0
         IN SubSeq(k, 1, start) \o Repeat("*", m) \o SubSeq(k, end + 1, n)

Secret(k) ==
    LET n == Len(k) IN
    IF n <= 1 THEN Repeat("*", n)
    ELSE LET m == (n + 2) \div 3
             start0 == (n - m) \div 2
             end0 == start0 + m
             start == IF start0 < 0 THEN 0 ELSE start0
             end == IF end0 > n THEN n ELSE end0
         IN SubSeq(k, 1, start) \o Repeat("*", m) \o SubSeq(k, end + 1, n)

InitSecretVars ==
    /\ secPc = "idle"
    /\ key = Nil
    /\ masked = Nil
    /\ apiKey = Nil

\* A direct call of the exported function Secret.
CallSecret ==
    /\ secPc = "idle"
    /\ \E k \in StringsUpTo(MaxKeyLen) :
        /\ key' = k
        /\ masked' = Secret(k)
    /\ secPc' = "secret"
    /\ UNCHANGED <<environ, apiKey, sendVars, templateVars>>

\* The constructor: the argument, else the environment variable, else panic;
\* it logs Secret(apiKey).
NewEngageLabEmailClient ==
    /\ secPc = "idle"
    /\ \E arg \in StringsUpTo(MaxKeyLen) :
        LET k == IF arg = <<>> THEN environ ELSE arg IN
        IF k = <<>>
        THEN /\ secPc' = "panic"
             /\ UNCHANGED <<key, masked, apiKey>>
        ELSE /\ secPc' = "client"
             /\ key' = k
             /\ masked' = Secret(k)
             /\ apiKey' = k
    /\ UNCHANGED <<environ, sendVars, templateVars>>

\* ------------------------------------------------------------------ Send
regularSendApi == "https://email.api.engagelab.cc/v1/mail/send"
templateSendApi == "https://email.api.engagelab.cc/v1/mail/sendtemplate"
templateListApi == "https://email.api.engagelab.cc/v1/templates"

\* Values the callers draw their arguments from.  A BodyCommon is modelled by
\* its Vars: "none" (nil map), "ok", or "chan" (a value encoding/json rejects).
Subjects == {"", "s"}
Htmls == {"", "h"}
Texts == {"", "t"}
Previews == {"", "p"}
Templates == {"", "tpl"}
ReqIds == {"", "id"}
VarsValues == {"none", "ok", "chan"}
BodyCommons == {Nil} \cup {Some([Vars |-> v]) : v \in VarsValues}
From == "from@x"
To == <<"to@x">>

\* uuid.New().String()
NewUUID == "uuid"

\* json omitempty on string fields: a field whose value is "" is left out.
OmitEmpty(rec) == [k \in {f \in DOMAIN rec : rec[f] # ""} |-> rec[k]]

\* The embedded *BodyCommon: nil or an empty Vars map adds no field.
CommonVars(bc) == IF bc = Nil THEN "none" ELSE bc[1].Vars

TemplateEmail(bc, subject, template) ==
    [type |-> "TemplateEmail", vars |-> CommonVars(bc), subject |-> subject,
     template_invoke_name |-> template]

EmailContent(html, text, preview) ==
    OmitEmpty([html |-> html, text |-> text, preview_text |-> preview])

RegularEmail(bc, subject, html, text, preview) ==
    [type |-> "RegularEmail", vars |-> CommonVars(bc), subject |-> subject,
     content |-> EmailContent(html, text, preview)]

EmailRequest(from, to, body, reqId) ==
    [from |-> from, to |-> to, body |-> body, request_id |-> reqId]

\* json.Marshal of an EmailRequest: fails on a value json cannot encode.
Marshal(request) ==
    IF request.body.vars = "chan"
    THEN [bytes |-> Nil, err |-> "json: unsupported type"]
    ELSE [bytes |-> Some(request), err |-> ""]

SelectApiSwapped(template) ==
    IF template # "" THEN regularSendApi ELSE templateSendApi

SelectApi(template) ==
    IF template # "" THEN templateSendApi ELSE regularSendApi

ValidationErrorNoSubjectCheck(subject, html, text) ==
    IF html = "" /\ text = "" THEN "html or text is required"
    ELSE ""

\* The regular path's local validation; "" when the arguments pass.
ValidationError(subject, html, text) ==
    IF subject = "" THEN "subject is required"
    ELSE IF html = "" /\ text = "" THEN "html or text is required"
    ELSE ""

InitSendVars ==
    /\ sendPc = "idle"
    /\ call = Nil
    /\ params = Nil
    /\ posts = <<>>
    /\ httpRsp = Nil
    /\ result = Nil
    /\ err = ""

\* Send up to client.Do (or to its local return).
Send(bodyCommon, from, to, subject, text, html, preview, template, reqId) ==
    LET rid == IF reqId = "" THEN NewUUID ELSE reqId
        verr == IF template # "" THEN "" ELSE ValidationError(subject, html, text)
        body == IF template # ""
                THEN TemplateEmail(bodyCommon, subject, template)
                ELSE RegularEmail(bodyCommon, subject, html, text, preview)
        m == Marshal(EmailRequest(from, to, body, rid))
    IN
    /\ params' = Some([bodyCommon |-> bodyCommon, from |-> from, to |-> to,
                       subject |-> subject, text |-> text, html |-> html,
                       preview |-> preview, template |-> template, reqId |-> reqId])
    /\ httpRsp' = Nil
    /\ IF verr # ""
       THEN /\ result' = Nil
            /\ err' = verr
            /\ sendPc' = "done"
            /\ UNCHANGED posts
       ELSE IF m.err # ""
       THEN /\ result' = Nil
            /\ err' = "failed to marshal request body"
            /\ sendPc' = "done"
            /\ UNCHANGED posts
       ELSE /\ posts' = Append(posts, [method |-> "POST", url |-> SelectApi(template),
                                       body |-> m.bytes[1]])
            /\ sendPc' = "do"
            /\ UNCHANGED <<result, err>>

\* A caller invokes Send directly.
CallSend ==
    /\ sendPc = "idle"
    /\ \E bc \in BodyCommons, subject \in Subjects, text \in Texts, html \in Htmls,
          preview \in Previews, template \in Templates, reqId \in ReqIds :
        /\ call' = Some([fn |-> "Send", subject |-> subject, text |-> text,
                         html |-> html, template |-> template])
        /\ Send(bc, From, To, subject, text, html, preview, template, reqId)
    /\ UNCHANGED <<secretVars, templateVars>>

SendRegular(from, to, subject, text, html, reqId) ==
    Send(Nil, from, to, subject, html, text, "", "", reqId)

CallSendRegular ==
    /\ sendPc = "idle"
    /\ \E subject \in Subjects, text \in Texts, html \in Htmls, reqId \in ReqIds :
        /\ call' = Some([fn |-> "SendRegular", subject |-> subject, text |-> text,
                         html |-> html, template |-> ""])
        /\ SendRegular(From, To, subject, text, html, reqId)
    /\ UNCHANGED <<secretVars, templateVars>>

SendTemplate(from, to, subject, template, tvars, reqId) ==
    Send(Some([Vars |-> tvars]), from, to, subject, "", "", "", template, reqId)

CallSendTemplate ==
    /\ sendPc = "idle"
    /\ \E subject \in Subjects, template \in Templates, v \in VarsValues,
          reqId \in ReqIds :
        /\ call' = Some([fn |-> "SendTemplate", subject |-> subject, text |-> "",
                         html |-> "", template |-> template])
        /\ SendTemplate(From, To, subject, template, v, reqId)
    /\ UNCHANGED <<secretVars, templateVars>>

\* ---- what the vendor (or the transport) can give back
StatusCodes == {200, 400}
BodyStatuses == {200, 404}
VendorCodes == {0, 30001}
VendorMessages == {"", "rejected"}

\* A response body, by what io.ReadAll and json.Unmarshal make of it:
\*   "nil"       rsp.Body == nil
\*   "readerr"   io.ReadAll fails
\*   "invalid"   not JSON (an empty body included)
\*   "null"      the JSON literal null
\*   "nonobject" valid JSON that is no object (array, number, string)
\*   "object"    a JSON object; hasStatus: it has an "http_status" member;
\*               mismatch: some member has a type its Go field cannot take
PlainBody(kind) ==
    [kind |-> kind, hasStatus |-> FALSE, http_status |-> 0, code |-> 0,
     message |-> "", mismatch |-> FALSE]

SendBodies ==
    {PlainBody(k) : k \in {"nil", "readerr", "invalid", "null", "nonobject"}}
    \cup {[kind |-> "object", hasStatus |-> FALSE, http_status |-> 0, code |-> c,
           message |-> m, mismatch |-> mm] :
            c \in VendorCodes, m \in VendorMessages, mm \in BOOLEAN}
    \cup {[kind |-> "object", hasStatus |-> TRUE, http_status |-> s, code |-> c,
           message |-> m, mismatch |-> mm] :
            s \in BodyStatuses, c \in VendorCodes, m \in VendorMessages,
            mm \in BOOLEAN}

UnmarshalRejectsVendorCode(body, v) ==
    IF body.kind = "object" /\ body.code = 0
    THEN [v |-> Some([HTTPStatus |-> IF body.hasStatus THEN body.http_status
                                     ELSE v[1].HTTPStatus,
                      Code |-> body.code, Message |-> body.message]),
          err |-> IF body.mismatch THEN "json: cannot unmarshal" ELSE ""]
    ELSE IF body.kind = "null" THEN [v |-> Nil, err |-> ""]
    ELSE [v |-> v, err |-> "json: error"]

\* json.Unmarshal(resBytes, &response), response a non-nil *EmailResponse:
\* a syntax error leaves the target alone; null sets the pointer to nil; a
\* type mismatch is reported after the other members have been stored.
Unmarshal(body, v) ==
    CASE body.kind = "invalid" -> [v |-> v, err |-> "json: syntax error"]
      [] body.kind = "null" -> [v |-> Nil, err |-> ""]
      [] body.kind = "nonobject" -> [v |-> v, err |-> "json: cannot unmarshal"]
      [] body.kind = "object" ->
            [v |-> Some([HTTPStatus |-> IF body.hasStatus THEN body.http_status
                                        ELSE v[1].HTTPStatus,
                         Code |-> body.code, Message |-> body.message]),
             err |-> IF body.mismatch THEN "json: cannot unmarshal" ELSE ""]

\* client.Do fails: Send returns nil and the wrapped error.
DoFails ==
    /\ sendPc = "do"
    /\ httpRsp' = Nil
    /\ result' = Nil
    /\ err' = "failed to send request"
    /\ sendPc' = "done"
    /\ UNCHANGED <<call, params, posts, secretVars, templateVars>>

\* client.Do returns a response: Send records the status, reads and decodes.
DoResponds ==
    /\ sendPc = "do"
    /\ \E status \in StatusCodes, body \in SendBodies :
        LET response == Some([HTTPStatus |-> status, Code |-> 0, Message |-> ""])
            u == Unmarshal(body, response)
        IN
        /\ httpRsp' = Some([StatusCode |-> status, Body |-> body])
        /\ IF body.kind = "nil"
           THEN result' = response /\ err' = "response body is nil"
           ELSE IF body.kind = "readerr"
           THEN result' = response /\ err' = "failed to read response body"
           ELSE IF u.err # ""
           THEN result' = u.v /\ err' = "failed to unmarshal response"
           ELSE result' = u.v /\ err' = ""
    /\ sendPc' = "done"
    /\ UNCHANGED <<call, params, posts, secretVars, templateVars>>

\* ------------------------------------------------------------ GetTemplates
limit == 100

OffsetOfPageTimesLimit(l, p) == l * p

\* offset := limit * (page - 1)
Offset(l, p) == l * (p - 1)

ShouldBreakOnTotalOnly(count, total, resultLen, l) == count = total

\* len(xs) == response.Total || len(response.Result) < int(limit)
ShouldBreak(count, total, resultLen, l) == count = total \/ resultLen < l

ErrorReturnKeepsPartial(acc, e) == [list |-> Some(acc), err |-> e]

\* return nil, err
ErrorReturn(acc, e) == [list |-> Nil, err |-> e]

AfterPageNoSleep(brk) == IF brk THEN "done" ELSE "request"

\* break, or page++ followed by time.Sleep
AfterPage(brk) == IF brk THEN "done" ELSE "sleep"

\* Templates are modelled by their template_id; the vendor numbers its
\* catalog 1, 2, 3, ... and a page at offset o starts with template o + 1.
Entries(offset, n) == [i \in 1..n |-> offset + i]

Min(a, b) == IF a < b THEN a ELSE b
Max(a, b) == IF a > b THEN a ELSE b

\* What a vendor holding n templates serves for (offset, limit).
SliceLen(n, offset, l) == Max(0, Min(l, n - offset))

PageBody(kind, entries, total, mismatch) ==
    [kind |-> kind, result |-> entries, total |-> total, mismatch |-> mismatch]

\* Bodies an arbitrary vendor may answer with: see SendBodies for the kinds.
\* An object carries its "result" (empty, short or full) and its "total"
\* (the count accumulated once this page is added, or another number).
ArbitraryBodies(offset, count) ==
    {PageBody(k, <<>>, 0, FALSE) :
        k \in {"nil", "readerr", "invalid", "null", "nonobject"}}
    \cup UNION {{PageBody("object", Entries(offset, r), t, mm) :
                    t \in {count + r, MaxCatalog}, mm \in BOOLEAN} :
                r \in {0, 40, limit}}

CatalogBody(n, offset, l) ==
    PageBody("object", Entries(offset, SliceLen(n, offset, l)), n, FALSE)

\* json.Unmarshal(resBytes, &response), response a non-nil *TemplatesResponse.
UnmarshalTemplates(body, v) ==
    CASE body.kind = "invalid" -> [v |-> v, err |-> "json: syntax error"]
      [] body.kind = "null" -> [v |-> Nil, err |-> ""]
      [] body.kind = "nonobject" -> [v |-> v, err |-> "json: cannot unmarshal"]
      [] body.kind = "object" ->
            [v |-> Some([HTTPStatus |-> v[1].HTTPStatus, Result |-> body.result,
                         Total |-> body.total]),
             err |-> IF body.mismatch THEN "json: cannot unmarshal" ELSE ""]

InitTemplateVars ==
    /\ gtPc = "request"
    /\ page = 1
    /\ xs = <<>>
    /\ gets = <<>>
    /\ rsps = <<>>
    /\ events = <<>>
    /\ inflight = 0
    /\ ret = Nil

\* Top of the loop: compute the offset and hand the GET to client.Do.
GetTemplatesRequest ==
    /\ gtPc = "request"
    /\ page <= MaxPages
    /\ gets' = Append(gets, [method |-> "GET", url |-> templateListApi,
                             offset |-> Offset(limit, page), limit |-> limit])
    /\ inflight' = inflight + 1
    /\ events' = Append(events, "request")
    /\ gtPc' = "do"
    /\ UNCHANGED <<vendor, catalog, page, xs, rsps, ret, secretVars, sendVars>>

\* client.Do fails.
GetTemplatesDoFails ==
    /\ gtPc = "do"
    /\ vendor = "arbitrary"
    /\ rsps' = Append(rsps, [ok |-> FALSE, StatusCode |-> 0,
                             Body |-> PageBody("none", <<>>, 0, FALSE)])
    /\ inflight' = inflight - 1
    /\ events' = Append(events, "response")
    /\ ret' = Some(ErrorReturn(xs, "failed to send request"))
    /\ gtPc' = "done"
    /\ UNCHANGED <<vendor, catalog, page, xs, gets, secretVars, sendVars>>

\* client.Do returns a response: read, decode, accumulate, then break or
\* advance the page.
GetTemplatesDoResponds ==
    /\ gtPc = "do"
    /\ \E status \in StatusCodes,
          body \in IF vendor = "catalog"
                   THEN {CatalogBody(catalog, gets[Len(gets)].offset,
                                     gets[Len(gets)].limit)}
                   ELSE ArbitraryBodies(gets[Len(gets)].offset, Len(xs)) :
        LET response == Some([HTTPStatus |-> status, Result |-> <<>>, Total |-> 0])
            u == UnmarshalTemplates(body, response)
            acc == xs \o u.v[1].Result
            brk == ShouldBreak(Len(acc), u.v[1].Total, Len(u.v[1].Result), limit)
        IN
        /\ vendor = "catalog" => status = 200
        /\ rsps' = Append(rsps, [ok |-> TRUE, StatusCode |-> status,
                                 Body |-> body])
        /\ IF body.kind = "nil"
           THEN /\ ret' = Some(ErrorReturn(xs, "response body is nil"))
                /\ gtPc' = "done"
                /\ UNCHANGED <<xs, page>>
           ELSE IF body.kind = "readerr"
           THEN /\ ret' = Some(ErrorReturn(xs, "failed to read response body"))
                /\ gtPc' = "done"
                /\ UNCHANGED <<xs, page>>
           ELSE IF u.err # ""
           THEN /\ ret' = Some(ErrorReturn(xs, "failed to unmarshal response"))
                /\ gtPc' = "done"
                /\ UNCHANGED <<xs, page>>
           ELSE IF u.v = Nil
           THEN \* response.Result on a nil *TemplatesResponse
                /\ gtPc' = "panic"
                /\ UNCHANGED <<xs, page, ret>>
           ELSE /\ xs' = acc
                /\ gtPc' = AfterPage(brk)
                /\ page' = IF brk THEN page ELSE page + 1
                /\ ret' = IF brk THEN Some([list |-> Some(acc), err |-> ""]) ELSE ret
    /\ inflight' = inflight - 1
    /\ events' = Append(events, "response")
    /\ UNCHANGED <<vendor, catalog, gets, secretVars, sendVars>>

\* time.Sleep(time.Millisecond * 500)
GetTemplatesSleep ==
    /\ gtPc = "sleep"
    /\ events' = Append(events, "pause")
    /\ gtPc' = "request"
    /\ UNCHANGED <<vendor, catalog, page, xs, gets, rsps, inflight, ret,
                   secretVars, sendVars>>

\* ---------------------------------------------------------- specifications
InitSecret ==
    /\ environ \in StringsUpTo(MaxEnvLen)
    /\ InitSecretVars
    /\ InitSendVars
    /\ InitTemplateVars
    /\ vendor = "arbitrary"
    /\ catalog = 0

NextSecret == CallSecret \/ NewEngageLabEmailClient

SpecSecret == InitSecret /\ [][NextSecret]_vars

InitSend ==
    /\ environ = <<>>
    /\ InitSecretVars
    /\ InitSendVars
    /\ InitTemplateVars
    /\ vendor = "arbitrary"
    /\ catalog = 0

NextSend == CallSend \/ CallSendRegular \/ CallSendTemplate \/ DoFails \/ DoResponds

SpecSend == InitSend /\ [][NextSend]_vars

InitTemplates ==
    /\ environ = <<>>
    /\ InitSecretVars
    /\ InitSendVars
    /\ InitTemplateVars
    /\ \/ vendor = "arbitrary" /\ catalog = 0
       \/ vendor = "catalog" /\ catalog \in 0..MaxCatalog

NextTemplates ==
    \/ GetTemplatesRequest
    \/ GetTemplatesDoFails
    \/ GetTemplatesDoResponds
    \/ GetTemplatesSleep

SpecTemplates == InitTemplates /\ [][NextTemplates]_vars

\* ------------------------------------------------------------------ claims

\* C1: a Send with an empty template name and an empty subject, or with html
\* and text both empty, returns a nil response and a non-nil error and hands
\* no request to the HTTP client.
C1_ValidationBeforeNetwork ==
    (params # Nil /\ params[1].template = ""
        /\ (params[1].subject = "" \/ (params[1].html = "" /\ params[1].text = "")))
    => /\ sendPc = "done"
       /\ result = Nil
       /\ err # ""
       /\ posts = <<>>
       /\ httpRsp = Nil

C1_Witness ==
    /\ sendPc = "done"
    /\ params # Nil
    /\ params[1].template = ""
    /\ params[1].subject = ""
    /\ params[1].html = "h"
    /\ err = "subject is required"
    /\ posts = <<>>

\* C2: with a non-empty template name Send never fails validation, whatever
\* subject, html and text are, and the one POST it makes goes to the template
\* endpoint with a TemplateEmail body; with an empty template name and
\* arguments that pass validation the one POST goes to the regular endpoint
\* with a RegularEmail body.  (No POST is made only when the body cannot be
\* encoded.)
C2_Routing ==
    params # Nil =>
        LET p == params[1]
            encodable == CommonVars(p.bodyCommon) # "chan"
        IN
        /\ Len(posts) <= 1
        /\ p.template # "" =>
            /\ err \notin {"subject is required", "html or text is required"}
            /\ encodable =>
                /\ Len(posts) = 1
                /\ posts[1].method = "POST"
                /\ posts[1].url = "https://email.api.engagelab.cc/v1/mail/sendtemplate"
                /\ posts[1].body.body.type = "TemplateEmail"
                /\ posts[1].body.body.template_invoke_name = p.template
            /\ ~encodable => posts = <<>>
        /\ (p.template = "" /\ p.subject # "" /\ (p.html # "" \/ p.text # "")) =>
            /\ encodable =>
                /\ Len(posts) = 1
                /\ posts[1].method = "POST"
                /\ posts[1].url = "https://email.api.engagelab.cc/v1/mail/send"
                /\ posts[1].body.body.type = "RegularEmail"
            /\ ~encodable => posts = <<>>

C2_Witness ==
    /\ sendPc = "done"
    /\ params # Nil
    /\ params[1].template = "tpl"
    /\ params[1].subject = ""
    /\ params[1].html = ""
    /\ params[1].text = ""
    /\ Len(posts) = 1
    /\ posts[1].url = templateSendApi
    /\ posts[1].body.body.type = "TemplateEmail"
    /\ err = ""

\* C6: whenever Send has obtained an HTTP response, the result it returns is
\* non-nil and its HTTPStatus is the status code of that response, whatever
\* the body.
C6_StatusAlwaysRecorded ==
    (sendPc = "done" /\ httpRsp # Nil)
    => /\ result # Nil
       /\ result[1].HTTPStatus = httpRsp[1].StatusCode

\* C7: a response body that is a JSON object with a non-zero code (and whose
\* members decode) makes Send return a nil error and a response holding the
\* vendor's code and message; an error is returned only for a local failure,
\* a transport failure, a read failure or a decode failure.
C7_VendorRejectionIsData ==
    sendPc = "done" =>
        IF httpRsp = Nil
        THEN err \in {"subject is required", "html or text is required",
                      "failed to marshal request body", "failed to send request"}
        ELSE LET b == httpRsp[1].Body IN
             /\ (b.kind = "object" /\ ~b.mismatch /\ b.code # 0) =>
                    /\ err = ""
                    /\ result # Nil
                    /\ result[1].Code = b.code
                    /\ result[1].Message = b.message
             /\ err # "" =>
                    \/ b.kind \in {"nil", "readerr", "invalid", "nonobject"}
                    \/ b.mismatch

C7_Witness ==
    /\ sendPc = "done"
    /\ httpRsp # Nil
    /\ httpRsp[1].Body.kind = "object"
    /\ httpRsp[1].Body.code = 30001
    /\ httpRsp[1].Body.message = "rejected"
    /\ ~httpRsp[1].Body.mismatch
    /\ err = ""
    /\ result # Nil
    /\ result[1].Code = 30001
    /\ result[1].Message = "rejected"

\* C10: the body SendRegular posts has the caller's html argument in
\* content.html and the caller's text argument in content.text, each member
\* absent exactly when the argument is empty.
C10_RegularContentNotExchanged ==
    (call # Nil /\ call[1].fn = "SendRegular" /\ posts # <<>>) =>
        LET c == posts[1].body.body.content IN
        /\ ("html" \in DOMAIN c) <=> (call[1].html # "")
        /\ ("text" \in DOMAIN c) <=> (call[1].text # "")
        /\ "html" \in DOMAIN c => c["html"] = call[1].html
        /\ "text" \in DOMAIN c => c["text"] = call[1].text

\* ceil(n / 3), computed without the code's (n + 2) / 3
CeilThird(n) == CHOOSE q \in 0..n : 3 * q >= n /\ (q = 0 \/ 3 * (q - 1) < n)

\* C8: Secret returns a string as long as its input in which the window
\* [start, start + m), m = ceil(n/3), start = floor((n - m)/2), is all '*'
\* and every other position keeps the input's character; for n <= 1 the
\* result is n asterisks.
C8_SecretMasksMiddleThird ==
    secPc \in {"secret", "client"} =>
        LET n == Len(key)
            m == CeilThird(n)
            start == (n - m) \div 2
        IN
        /\ Len(masked) = n
        /\ \A i \in 1..n :
            masked[i] = IF i > start /\ i <= start + m THEN "*" ELSE key[i]
        /\ n <= 1 => masked = [i \in 1..n |-> "*"]
        /\ n > 1 => Cardinality({i \in 1..n : i > start /\ i <= start + m}) = m

C8_Witness ==
    /\ secPc = "secret"
    /\ key = <<"a", "b", "a", "b", "a">>
    /\ masked = <<"a", "*", "*", "b", "a">>

\* ceil(n / 100)
CeilHundred(n) == CHOOSE q \in 0..n : 100 * q >= n /\ (q = 0 \/ 100 * (q - 1) < n)

\* C3: against a vendor serving a catalog of N templates with total = N,
\* GetTemplates requests offsets 0, 100, 200, ... with limit 100, one request
\* at a time, makes exactly max(1, ceil(N/100)) requests and returns the N
\* templates in catalog order with a nil error.
C3_CatalogListing ==
    vendor = "catalog" =>
        LET pages == IF catalog = 0 THEN 1 ELSE CeilHundred(catalog) IN
        /\ \A k \in 1..Len(gets) :
            gets[k].offset = 100 * (k - 1) /\ gets[k].limit = 100
        /\ Len(gets) <= pages
        /\ inflight \in {0, 1}
        /\ gtPc # "panic"
        /\ gtPc = "request" => page <= pages
        /\ gtPc = "done" =>
            /\ Len(gets) = pages
            /\ ret # Nil
            /\ ret[1].err = ""
            /\ ret[1].list = Some([i \in 1..catalog |-> i])

C3_Witness ==
    /\ vendor = "catalog"
    /\ catalog = 237
    /\ gtPc = "done"
    /\ Len(gets) = 3
    /\ gets[1].offset = 0 /\ gets[2].offset = 100 /\ gets[3].offset = 200
    /\ Len(rsps[3].Body.result) = 37
    /\ Len(ret[1].list[1]) = 237

RECURSIVE Accumulated(_)
\* The results of the first k responses, one after the other.
Accumulated(k) ==
    IF k = 0 THEN <<>> ELSE Accumulated(k - 1) \o rsps[k].Body.result

ShortDecoded(r) ==
    /\ r.ok
    /\ r.Body.kind = "object"
    /\ ~r.Body.mismatch
    /\ Len(r.Body.result) < 100

\* C4: once a page has been decoded whose result has fewer than 100 entries,
\* whatever total it declares, no further request is made: GetTemplates has
\* returned the entries accumulated so far and a nil error.
C4_ShortPageEndsListing ==
    \A k \in 1..Len(rsps) :
        ShortDecoded(rsps[k]) =>
            /\ k = Len(rsps)
            /\ Len(gets) = k
            /\ inflight = 0
            /\ gtPc = "done"
            /\ ret # Nil
            /\ ret[1].err = ""
            /\ ret[1].list = Some(Accumulated(k))

C4_Witness ==
    /\ Len(rsps) = 2
    /\ ShortDecoded(rsps[2])
    /\ Len(rsps[2].Body.result) = 40
    /\ rsps[2].Body.total = MaxCatalog
    /\ rsps[2].Body.total # Len(xs)
    /\ gtPc = "done"
    /\ Len(ret[1].list[1]) = 140

FailedPage(r) ==
    \/ ~r.ok
    \/ r.Body.kind \in {"nil", "readerr", "invalid", "nonobject"}
    \/ r.Body.kind = "object" /\ r.Body.mismatch

\* C5: when the request for a page fails (transport, read or decode error),
\* GetTemplates has returned a nil list and a non-nil error, not the entries
\* of the earlier pages, and no request follows the failing one.
C5_FailureDiscardsPartial ==
    \A k \in 1..Len(rsps) :
        FailedPage(rsps[k]) =>
            /\ k = Len(rsps)
            /\ Len(gets) = k
            /\ inflight = 0
            /\ gtPc = "done"
            /\ ret # Nil
            /\ ret[1].list = Nil
            /\ ret[1].err # ""

C5_Witness ==
    /\ Len(rsps) = 2
    /\ rsps[2].ok
    /\ rsps[2].Body.kind = "invalid"
    /\ Len(xs) = 100
    /\ gtPc = "done"
    /\ ret[1].list = Nil
    /\ ret[1].err = "failed to unmarshal response"

\* C9: requests, responses and pauses alternate as
\* request response (pause request response)*: between two consecutive page
\* requests there is exactly one pause, after the earlier response and before
\* the advanced page index is used, whatever the earlier response's status;
\* at most one request is in flight.
C9_PauseBetweenPages ==
    /\ inflight \in {0, 1}
    /\ inflight = 1 <=> gtPc = "do"
    /\ \A i \in 1..Len(events) :
        /\ events[i] = "request" =>
            \/ i = 1
            \/ i >= 3 /\ events[i - 1] = "pause" /\ events[i - 2] = "response"
        /\ events[i] = "response" => i >= 2 /\ events[i - 1] = "request"
        /\ events[i] = "pause" => i >= 2 /\ events[i - 1] = "response"
    /\ Cardinality({i \in 1..Len(events) : events[i] = "request"}) = Len(gets)
    /\ gtPc = "sleep" => page = Len(gets) + 1 /\ Len(rsps) = Len(gets)
    /\ gtPc \in {"request", "do"} =>
        Cardinality({i \in 1..Len(events) : events[i] = "pause"}) = page - 1

C9_Witness ==
    /\ Len(gets) = 2
    /\ events = <<"request", "response", "pause", "request">>
    /\ rsps[1].StatusCode = 400
    /\ inflight = 1
    /\ page = 2

====
